---------------------------- MODULE Spec2Model ----------------------------
(***************************************************************************)
(* A model of converter/component.py: the Kaldi nnet3 component records,   *)
(* the tokenizer, the value readers and Component.read_attributes.         *)
(*                                                                         *)
(* Representation.                                                         *)
(*  - A Python str is a sequence of one-character strings, so that         *)
(*    indexing, slicing, len() and concatenation are those of the code.    *)
(*  - Positions are the code's 0-based offsets: line[pos] of the code is   *)
(*    line[pos + 1] here.                                                  *)
(*  - None, as a token, is the empty sequence: read_next_token never       *)
(*    returns an empty str, so the two cannot be confused.                 *)
(*  - dim is <<>> for None and <<n>> for the integer n.                    *)
(*  - A float is a fixed-point integer counting 1/FloatScale units (float  *)
(*    "1" is 1000, "0.5" is 500); an int is itself.                        *)
(*  - A dict is a function whose DOMAIN is the set of its keys.            *)
(*  - The value a reader returns is a record of its Python type and its   *)
(*    value; attributes and constants hold the values themselves.         *)
(*  - An exception ends the call: pc = "error" and err names it.           *)
(***************************************************************************)
EXTENDS Integers, Sequences, FiniteSets, TLC

\* ------------------------------------------------------------------ bounds

\* Lines the line source can still deliver when read_attributes is called.
MaxLines == 2
\* Longest line of the tokenizer's own specification.
MaxLen == 5
\* Rows and columns of the matrices the matrix specification serialises.
MaxRows == 3
MaxCols == 2
\* Filler characters between '<' and 'Component>' in the type-tag candidates.
MaxMid == 3
\* Synthesized components built in one run of the naming specification, and
\* the inputs of a sum.
MaxComponents == 2
MaxSumInputs == 2

\* ----------------------------------------------------------------- strings

None == <<>>

TokDim == <<"<", "D", "i", "m", ">">>
TokInputDim == <<"<", "I", "n", "p", "u", "t", "D", "i", "m", ">">>
TokOutputDim == <<"<", "O", "u", "t", "p", "u", "t", "D", "i", "m", ">">>
TokParams == <<"<", "P", "a", "r", "a", "m", "s", ">">>
TokLinearParams == <<"<", "L", "i", "n", "e", "a", "r", "P", "a", "r", "a", "m", "s", ">">>
TokBiasParams == <<"<", "B", "i", "a", "s", "P", "a", "r", "a", "m", "s", ">">>
TokEpsilon == <<"<", "E", "p", "s", "i", "l", "o", "n", ">">>
TokTargetRms == <<"<", "T", "a", "r", "g", "e", "t", "R", "m", "s", ">">>
TokStatsMean == <<"<", "S", "t", "a", "t", "s", "M", "e", "a", "n", ">">>
TokStatsVar == <<"<", "S", "t", "a", "t", "s", "V", "a", "r", ">">>
TokTimeOffsets == <<"<", "T", "i", "m", "e", "O", "f", "f", "s", "e", "t", "s", ">">>
\* A tag no attribute table knows, and the tag that ends a declaration.
TokFoo == <<"<", "F", "o", "o", ">">>
TokEnd == <<"<", "/", "N", "n", "e", "t", "3", ">">>
LBracket == <<"[">>
RBracket == <<"]">>
SP == <<" ">>
NL == <<"\n">>

StrComponentGt == <<"C", "o", "m", "p", "o", "n", "e", "n", "t", ">">>
StrSum == <<".", "s", "u", "m", ".">>
StrOffset == <<".", "o", "f", "f", "s", "e", "t", ".">>
StrScale == <<".", "s", "c", "a", "l", "e", ".">>
StrReplaceIndex == <<".", "R", "e", "p", "l", "a", "c", "e", "I", "n", "d", "e", "x", ".">>

\* The characters of an attribute key, as f'{self.name}_{const_name}' formats it.
KeyChars(k) ==
  CASE k = "params" -> <<"p", "a", "r", "a", "m", "s">>
    [] k = "bias" -> <<"b", "i", "a", "s">>
    [] k = "stats_mean" -> <<"s", "t", "a", "t", "s", "_", "m", "e", "a", "n">>
    [] k = "stats_var" -> <<"s", "t", "a", "t", "s", "_", "v", "a", "r">>

\* ' '.join and friends: the strings of ss, sep between each two.
RECURSIVE Join(_, _)
Join(sep, ss) ==
  IF Len(ss) = 0 THEN <<>>
  ELSE IF Len(ss) = 1 THEN ss[1]
  ELSE ss[1] \o sep \o Join(sep, Tail(ss))

\* --------------------------------------------------------------- tokenizer

\* str.isspace on the characters the model's lines are made of.
IsSpace(c) == c \in {" ", "\t", "\n", "\r"}

\* while pos < len(line) and line[pos].isspace(): pos += 1
RECURSIVE SkipSpace(_, _)
SkipSpace(s, p) ==
  IF p < Len(s) /\ IsSpace(s[p + 1]) THEN SkipSpace(s, p + 1) ELSE p

\* while pos < len(line) and not line[pos].isspace(): pos += 1
RECURSIVE SkipToken(_, _)
SkipToken(s, p) ==
  IF p < Len(s) /\ ~IsSpace(s[p + 1]) THEN SkipToken(s, p + 1) ELSE p

\* A faulty variant of TokenEnd: the scan stops one character early.
TokenEndShort(s, p) ==
  LET q == SkipToken(s, p) IN IF q > p + 1 THEN q - 1 ELSE q

TokenEnd(s, p) == SkipToken(s, p)

\* read_next_token(line, pos) -> <<token or None, new pos>>
read_next_token(s, p) ==
  LET p1 == SkipSpace(s, p) IN
    IF p1 >= Len(s) THEN <<None, p1>>
    ELSE LET q == TokenEnd(s, p1) IN <<SubSeq(s, p1 + 1, q), q>>

\* read_component_type(line, pos): ok is FALSE where the code raises ValueError.
\* component_type[-10:] is the last ten characters (all of a shorter str).
TypeShapeNoLength(t) ==
  /\ t # None
  /\ t[1] = "<"
  /\ SubSeq(t, IF Len(t) > 10 THEN Len(t) - 9 ELSE 1, Len(t)) = StrComponentGt

TypeShape(t) ==
  /\ t # None
  /\ Len(t) >= 13
  /\ t[1] = "<"
  /\ SubSeq(t, IF Len(t) > 10 THEN Len(t) - 9 ELSE 1, Len(t)) = StrComponentGt

read_component_type(s, p) ==
  LET r == read_next_token(s, p) IN
    [ok |-> TypeShape(r[1]), type |-> r[1], pos |-> r[2]]

\* __check_for_newline(line, pos) -> <<saw_newline, new pos>>
RECURSIVE check_for_newline(_, _)
check_for_newline(s, p) ==
  IF p < Len(s) /\ IsSpace(s[p + 1])
  THEN LET r == check_for_newline(s, p + 1) IN <<(s[p + 1] = "\n") \/ r[1], r[2]>>
  ELSE <<FALSE, p>>

\* ----------------------------------------------------------------- numbers

\* Units per 1.0 of the fixed-point floats.
FloatScale == 1000

Digits == {"0", "1", "2", "3", "4", "5", "6", "7", "8", "9"}

DigitVal(c) ==
  CASE c = "0" -> 0 [] c = "1" -> 1 [] c = "2" -> 2 [] c = "3" -> 3 [] c = "4" -> 4
    [] c = "5" -> 5 [] c = "6" -> 6 [] c = "7" -> 7 [] c = "8" -> 8 [] c = "9" -> 9

DigitChar(d) == <<"0", "1", "2", "3", "4", "5", "6", "7", "8", "9">>[d + 1]

RECURSIVE DigitsVal(_)
DigitsVal(s) ==
  IF Len(s) = 0 THEN 0
  ELSE 10 * DigitsVal(SubSeq(s, 1, Len(s) - 1)) + DigitVal(s[Len(s)])

IsDigits(s) == Len(s) > 0 /\ \A i \in 1..Len(s) : s[i] \in Digits

Unsigned(s) == IF Len(s) > 0 /\ s[1] \in {"-", "+"} THEN Tail(s) ELSE s

Sign(s) == IF Len(s) > 0 /\ s[1] = "-" THEN -1 ELSE 1

\* The index of the first '.', or 0.
DotIndex(s) ==
  IF \E i \in 1..Len(s) : s[i] = "."
  THEN CHOOSE i \in 1..Len(s) : s[i] = "." /\ \A j \in 1..(i - 1) : s[j] # "."
  ELSE 0

\* int(tok): the literals the model's tokens can spell (sign and digits). tok is
\* a str here; int(None) is a TypeError, decided by the caller.
IsIntLiteral(s) == IsDigits(Unsigned(s))

IntValue(s) == Sign(s) * DigitsVal(Unsigned(s))

\* float(tok): sign, digits, an optional '.' and fraction digits. The model's
\* tokens spell no exponent, inf or nan. Fraction digits past the third are cut.
IntPart(s) == LET u == Unsigned(s) d == DotIndex(u) IN
  IF d = 0 THEN u ELSE SubSeq(u, 1, d - 1)

FracPart(s) == LET u == Unsigned(s) d == DotIndex(u) IN
  IF d = 0 THEN <<>> ELSE SubSeq(u, d + 1, Len(u))

IsFloatLiteral(s) ==
  /\ IntPart(s) = <<>> \/ IsDigits(IntPart(s))
  /\ FracPart(s) = <<>> \/ IsDigits(FracPart(s))
  /\ IntPart(s) # <<>> \/ FracPart(s) # <<>>

FracValue(f) ==
  LET g == SubSeq(f \o <<"0", "0", "0">>, 1, 3) IN (DigitsVal(g) * FloatScale) \div 1000

FloatValue(s) == Sign(s) * (DigitsVal(IntPart(s)) * FloatScale + FracValue(FracPart(s)))

\* The largest r in lo..hi with r * r <= n (lo * lo <= n is given).
RECURSIVE ISqrtIn(_, _, _)
ISqrtIn(n, lo, hi) ==
  IF lo >= hi THEN lo
  ELSE LET mid == (lo + hi + 1) \div 2 IN
    IF mid * mid <= n THEN ISqrtIn(n, mid, hi) ELSE ISqrtIn(n, lo, mid - 1)

\* np.power(x, -0.5) on a positive fixed-point x: sqrt(FloatScale^3 / x) units.
PowNegHalf(x) == ISqrtIn((FloatScale * FloatScale * FloatScale) \div x, 0, 46340)

\* np.multiply on two fixed-point floats.
FMul(a, b) == (a * b) \div FloatScale

\* np.array(mat): rows of one length, or ValueError.
IsRect(m) == \A i \in 1..Len(m) : Len(m[i]) = Len(m[1])

\* np.transpose of a rectangular list of non-empty rows; of [] it is [].
TransposeIdentity(m) == m

Transpose(m) ==
  IF Len(m) = 0 THEN <<>>
  ELSE [j \in 1..Len(m[1]) |-> [i \in 1..Len(m) |-> m[i][j]]]

\* ------------------------------------------------------------------- state

VARIABLES
  \* The Component record (Component.__init__).
  ctype, name, inputs, dim, attrs, consts,
  \* The arguments of read_attributes: file buffer, current line, position,
  \* terminating tokens.
  line_buffer, line, pos, terminating_tokens,
  \* Control: where the call stands, and the exception that ended it ("" if none).
  pc, err,
  \* Locals of read_attributes and of the readers it calls.
  tok, func, key, vector, mat, one_row, obj, const_i,
  \* History: inputs at the call, attributes when the read loop ended, attributes
  \* right before promotion, the storage keys in the order they were stored, and
  \* the reader that hit end of input.
  inputs0, attrs_read, attrs0, stored, eof_in,
  \* History of the tokenizer runs: start offset and the calls made.
  start, calls,
  \* The matrix a serialised literal was written from, and the type-tag token a
  \* candidate line was written from.
  src_rows, cand,
  \* The synthesized components built so far.
  components

recVars == <<ctype, name, inputs, dim, attrs, consts>>
argVars == <<line_buffer, line, pos, terminating_tokens>>
locVars == <<tok, func, key, vector, mat, one_row, obj, const_i>>
histVars == <<inputs0, attrs_read, attrs0, stored, eof_in>>
auxVars == <<start, calls, src_rows, cand, components>>
vars == <<recVars, argVars, pc, err, locVars, histVars, auxVars>>

\* An empty dict.
EmptyDict == <<>>

\* A value a reader returns, with its Python type: an int, a float, a 1-D array
\* ("vector") or a 2-D array ("matrix"); NoObject before any reader has returned.
PyObject(t, v) == [type |-> t, value |-> v]

NoObject == PyObject("NoneType", 0)

\* d[k] = v
DictSet(d, k, v) == [x \in (DOMAIN d) \cup {k} |-> IF x = k THEN v ELSE d[x]]

\* A faulty variant of DictPop: the key stays.
DictPopKeeps(d, k) == d

\* d.pop(k)
DictPop(d, k) == [x \in (DOMAIN d) \ {k} |-> d[x]]

\* --------------------------------------------------------- attribute tables

\* _actions() of each class: tag -> (reader, storage key). The classes of
\* TYPE_TO_COMPONENT: Component, AffineComponent, BatchNormComponent and
\* TdnnComponent.
ComponentTypes == {"Component", "AffineComponent", "BatchNormComponent", "TdnnComponent"}

Entry(f, k) == [func |-> f, name |-> k]

ComponentActions ==
  (TokDim :> Entry("_read_int", "dim"))
  @@ (TokInputDim :> Entry("_read_int", "input_dim"))
  @@ (TokOutputDim :> Entry("_read_int", "output_dim"))

AffineActions ==
  (TokParams :> Entry("_read_matrix_trans", "params"))
  @@ (TokLinearParams :> Entry("_read_matrix_trans", "params"))
  @@ (TokBiasParams :> Entry("_read_vector_float", "bias"))

BatchNormActions ==
  (TokDim :> Entry("_read_int", "dim"))
  @@ (TokEpsilon :> Entry("_read_float", "epsilon"))
  @@ (TokTargetRms :> Entry("_read_float", "target_rms"))
  @@ (TokStatsMean :> Entry("_read_vector_float", "stats_mean"))
  @@ (TokStatsVar :> Entry("_read_vector_float", "stats_var"))

TdnnActions ==
  (TokTimeOffsets :> Entry("_read_vector_int", "time_offsets"))
  @@ (TokLinearParams :> Entry("_read_matrix_trans", "params"))
  @@ (TokBiasParams :> Entry("_read_vector_float", "bias"))

actions ==
  CASE ctype = "Component" -> ComponentActions
    [] ctype = "AffineComponent" -> AffineActions
    [] ctype = "BatchNormComponent" -> BatchNormActions
    [] ctype = "TdnnComponent" -> TdnnActions

\* Where a reader starts.
ReaderEntry(f) ==
  CASE f = "_read_int" -> "read_int"
    [] f = "_read_float" -> "read_float"
    [] f = "_read_vector_int" -> "vector_open"
    [] f = "_read_vector_float" -> "vector_open"
    [] f = "_read_matrix_trans" -> "matrix_open"

\* A faulty variant of const_names: bias is promoted before params.
const_names_bias_first == <<"bias", "params", "stats_mean", "stats_var">>

\* const_names = ['params', 'bias', 'stats_mean', 'stats_var']
const_names == <<"params", "bias", "stats_mean", "stats_var">>

\* A faulty variant of new_const_name: the component's name is not prefixed.
new_const_name_bare(n, k) == KeyChars(k)

\* new_const_name = f'{self.name}_{const_name}'
new_const_name(n, k) == n \o <<"_">> \o KeyChars(k)

\* A faulty variant of IsEmptyBias: an empty bias is promoted like any other.
IsEmptyBiasNever(k, v) == FALSE

\* const_name == 'bias' and self._attrs[const_name].shape[0] == 0
IsEmptyBias(k, v) == k = "bias" /\ Len(v) = 0

\* converter.utils.check(condition, msg): a fatal error reporting msg when the
\* condition is false. Its source is not part of component.py.
CheckFails(condition) == ~condition

\* ---------------------------------------------------------- the line source

\* line = next(line_buffer), then pos = 0: the source still holds a line.
PullLine ==
  /\ Len(line_buffer) > 0
  /\ line' = Head(line_buffer)
  /\ line_buffer' = Tail(line_buffer)
  /\ pos' = 0

\* next(line_buffer) on an exhausted source. An iterator (a file object: the
\* annotated TextIO) raises StopIteration there, before the check that follows
\* the call is reached; where is the loop that pulled.
PullRaises(where) ==
  /\ Len(line_buffer) = 0
  /\ pc' = "error"
  /\ err' = "StopIteration"
  /\ eof_in' = where

\* next(line_buffer) on a source that hands out None once exhausted: the check
\* that follows the call fails with msg.
PullNone(where, msg) ==
  /\ Len(line_buffer) = 0
  /\ CheckFails(FALSE)
  /\ pc' = "error"
  /\ err' = msg
  /\ eof_in' = where

\* ------------------------------------------- Component.read_attributes: loop

\* token, pos = read_next_token(line, pos), at the top of the while loop.
LoopToken == read_next_token(line, pos)

\* if token in terminating_tokens: break
AttrBreak ==
  /\ pc = "loop"
  /\ LoopToken[1] \in terminating_tokens
  /\ tok' = LoopToken[1]
  /\ pos' = LoopToken[2]
  /\ pc' = "adjust"
  /\ attrs_read' = attrs
  /\ UNCHANGED <<recVars, line_buffer, line, terminating_tokens, err, func, key,
                 vector, mat, one_row, obj, const_i, inputs0, attrs0, stored,
                 eof_in, auxVars>>

\* if token is None: line = next(line_buffer); pos = 0; continue
AttrNextLine ==
  /\ pc = "loop"
  /\ LoopToken[1] \notin terminating_tokens
  /\ LoopToken[1] = None
  /\ tok' = None
  /\ PullLine
  /\ UNCHANGED <<recVars, terminating_tokens, pc, err, func, key, vector, mat,
                 one_row, obj, const_i, histVars, auxVars>>

AttrEofRaises ==
  /\ pc = "loop"
  /\ LoopToken[1] \notin terminating_tokens
  /\ LoopToken[1] = None
  /\ tok' = None
  /\ pos' = LoopToken[2]
  /\ PullRaises("attributes")
  /\ UNCHANGED <<recVars, line_buffer, line, terminating_tokens, func, key, vector,
                 mat, one_row, obj, const_i, inputs0, attrs_read, attrs0,
                 stored, auxVars>>

\* check(line is not None, 'Error parsing nnet3 file.')
AttrEofNone ==
  /\ pc = "loop"
  /\ LoopToken[1] \notin terminating_tokens
  /\ LoopToken[1] = None
  /\ tok' = None
  /\ pos' = LoopToken[2]
  /\ PullNone("attributes", "Error parsing nnet3 file.")
  /\ UNCHANGED <<recVars, line_buffer, line, terminating_tokens, func, key, vector,
                 mat, one_row, obj, const_i, inputs0, attrs_read, attrs0,
                 stored, auxVars>>

\* if token in actions: func, name = actions[token]; the reader is entered.
AttrAction ==
  /\ pc = "loop"
  /\ LoopToken[1] \notin terminating_tokens
  /\ LoopToken[1] # None
  /\ LoopToken[1] \in DOMAIN actions
  /\ tok' = LoopToken[1]
  /\ pos' = LoopToken[2]
  /\ func' = actions[LoopToken[1]].func
  /\ key' = actions[LoopToken[1]].name
  /\ pc' = ReaderEntry(actions[LoopToken[1]].func)
  /\ UNCHANGED <<recVars, line_buffer, line, terminating_tokens, err, vector, mat,
                 one_row, obj, const_i, histVars, auxVars>>

\* A faulty variant of AttrSkip: the unknown token is read and pos stays before it.
AttrSkipStays ==
  /\ pc = "loop"
  /\ LoopToken[1] \notin terminating_tokens
  /\ LoopToken[1] # None
  /\ LoopToken[1] \notin DOMAIN actions
  /\ tok' = LoopToken[1]
  /\ pos' = pos
  /\ UNCHANGED <<recVars, line_buffer, line, terminating_tokens, pc, err, func, key,
                 vector, mat, one_row, obj, const_i, histVars, auxVars>>

\* A faulty variant of AttrSkip: the token after the unknown one goes with it.
AttrSkipWithValue ==
  /\ pc = "loop"
  /\ LoopToken[1] \notin terminating_tokens
  /\ LoopToken[1] # None
  /\ LoopToken[1] \notin DOMAIN actions
  /\ tok' = LoopToken[1]
  /\ pos' = read_next_token(line, LoopToken[2])[2]
  /\ UNCHANGED <<recVars, line_buffer, line, terminating_tokens, pc, err, func, key,
                 vector, mat, one_row, obj, const_i, histVars, auxVars>>

\* Any other token: the loop goes round with the new pos.
AttrSkip ==
  /\ pc = "loop"
  /\ LoopToken[1] \notin terminating_tokens
  /\ LoopToken[1] # None
  /\ LoopToken[1] \notin DOMAIN actions
  /\ tok' = LoopToken[1]
  /\ pos' = LoopToken[2]
  /\ UNCHANGED <<recVars, line_buffer, line, terminating_tokens, pc, err, func, key,
                 vector, mat, one_row, obj, const_i, histVars, auxVars>>

\* A faulty variant of AttrStore: a 'dim' is lifted to the field as soon as it
\* is read.
AttrStoreLiftsDim ==
  /\ pc = "store"
  /\ attrs' = DictSet(attrs, key, obj.value)
  /\ dim' = IF key = "dim" THEN <<obj.value>> ELSE dim
  /\ stored' = Append(stored, key)
  /\ pc' = "loop"
  /\ UNCHANGED <<ctype, name, inputs, consts, argVars, err, locVars, inputs0,
                 attrs_read, attrs0, eof_in, auxVars>>

\* obj, line, pos = func(line, pos, line_buffer) has returned:
\* self._attrs[name] = obj
AttrStore ==
  /\ pc = "store"
  /\ attrs' = DictSet(attrs, key, obj.value)
  /\ stored' = Append(stored, key)
  /\ pc' = "loop"
  /\ UNCHANGED <<ctype, name, inputs, dim, consts, argVars, err, locVars, inputs0,
                 attrs_read, attrs0, eof_in, auxVars>>

\* ------------------------------------------------------------ scalar readers

\* _read_int: tok, pos = read_next_token(line, pos); return int(tok), line, pos
ReadInt ==
  /\ pc = "read_int"
  /\ LET r == read_next_token(line, pos) IN
       /\ tok' = r[1]
       /\ pos' = r[2]
       /\ IF r[1] = None
          THEN pc' = "error" /\ err' = "TypeError" /\ obj' = obj
          ELSE IF ~IsIntLiteral(r[1])
          THEN pc' = "error" /\ err' = "ValueError" /\ obj' = obj
          ELSE pc' = "store" /\ err' = err /\ obj' = PyObject("int", IntValue(r[1]))
  /\ UNCHANGED <<recVars, line_buffer, line, terminating_tokens, func, key, vector,
                 mat, one_row, const_i, histVars, auxVars>>

\* _read_float: tok, pos = read_next_token(line, pos); return float(tok), line, pos
ReadFloat ==
  /\ pc = "read_float"
  /\ LET r == read_next_token(line, pos) IN
       /\ tok' = r[1]
       /\ pos' = r[2]
       /\ IF r[1] = None
          THEN pc' = "error" /\ err' = "TypeError" /\ obj' = obj
          ELSE IF ~IsFloatLiteral(r[1])
          THEN pc' = "error" /\ err' = "ValueError" /\ obj' = obj
          ELSE pc' = "store" /\ err' = err /\ obj' = PyObject("float", FloatValue(r[1]))
  /\ UNCHANGED <<recVars, line_buffer, line, terminating_tokens, func, key, vector,
                 mat, one_row, const_i, histVars, auxVars>>

\* ------------------------------------------------------------- vector reader

\* __read_vector: tok, pos = read_next_token(line, pos); check(tok == '[', ...)
VectorOpen ==
  /\ pc = "vector_open"
  /\ LET r == read_next_token(line, pos) IN
       /\ tok' = r[1]
       /\ pos' = r[2]
       /\ IF CheckFails(r[1] = LBracket)
          THEN pc' = "error" /\ err' = "expected ["
          ELSE pc' = "vector" /\ err' = err
  /\ vector' = <<>>
  /\ UNCHANGED <<recVars, line_buffer, line, terminating_tokens, func, key, mat,
                 one_row, obj, const_i, histVars, auxVars>>

\* np.array([int(v) for v in vector]) and np.array([float(v) for v in vector]):
\* <<TRUE, array>>, or <<FALSE, ...>> where a conversion raises ValueError.
VectorValue(f, v) ==
  IF f = "_read_vector_int"
  THEN <<\A i \in 1..Len(v) : IsIntLiteral(v[i]),
         [i \in 1..Len(v) |-> IF IsIntLiteral(v[i]) THEN IntValue(v[i]) ELSE 0]>>
  ELSE <<\A i \in 1..Len(v) : IsFloatLiteral(v[i]),
         [i \in 1..Len(v) |-> IF IsFloatLiteral(v[i]) THEN FloatValue(v[i]) ELSE 0]>>

\* if tok == ']': break; then the caller converts the elements and returns.
VectorClose ==
  /\ pc = "vector"
  /\ LET r == read_next_token(line, pos) IN
       /\ r[1] = RBracket
       /\ tok' = r[1]
       /\ pos' = r[2]
       /\ IF VectorValue(func, vector)[1]
          THEN /\ pc' = "store" /\ err' = err
               /\ obj' = PyObject("vector", VectorValue(func, vector)[2])
          ELSE pc' = "error" /\ err' = "ValueError" /\ obj' = obj
  /\ UNCHANGED <<recVars, line_buffer, line, terminating_tokens, func, key, vector,
                 mat, one_row, const_i, histVars, auxVars>>

\* A faulty variant of VectorNextLine: two lines are pulled and the first is lost.
VectorNextLineTwice ==
  /\ pc = "vector"
  /\ read_next_token(line, pos)[1] = None
  /\ tok' = None
  /\ Len(line_buffer) > 1
  /\ line' = line_buffer[2]
  /\ line_buffer' = Tail(Tail(line_buffer))
  /\ pos' = 0
  /\ UNCHANGED <<recVars, terminating_tokens, pc, err, func, key, vector, mat,
                 one_row, obj, const_i, histVars, auxVars>>

\* if tok is None: line = next(line_buffer); pos = 0; continue
VectorNextLine ==
  /\ pc = "vector"
  /\ read_next_token(line, pos)[1] = None
  /\ tok' = None
  /\ PullLine
  /\ UNCHANGED <<recVars, terminating_tokens, pc, err, func, key, vector, mat,
                 one_row, obj, const_i, histVars, auxVars>>

VectorEofRaises ==
  /\ pc = "vector"
  /\ read_next_token(line, pos)[1] = None
  /\ tok' = None
  /\ pos' = read_next_token(line, pos)[2]
  /\ PullRaises("vector")
  /\ UNCHANGED <<recVars, line_buffer, line, terminating_tokens, func, key, vector,
                 mat, one_row, obj, const_i, inputs0, attrs_read, attrs0,
                 stored, auxVars>>

\* check(line is not None, 'Encountered EOF while reading vector.')
VectorEofNone ==
  /\ pc = "vector"
  /\ read_next_token(line, pos)[1] = None
  /\ tok' = None
  /\ pos' = read_next_token(line, pos)[2]
  /\ PullNone("vector", "Encountered EOF while reading vector.")
  /\ UNCHANGED <<recVars, line_buffer, line, terminating_tokens, func, key, vector,
                 mat, one_row, obj, const_i, inputs0, attrs_read, attrs0,
                 stored, auxVars>>

\* vector.append(tok)
VectorAppend ==
  /\ pc = "vector"
  /\ LET r == read_next_token(line, pos) IN
       /\ r[1] \notin {RBracket, None}
       /\ tok' = r[1]
       /\ pos' = r[2]
       /\ vector' = Append(vector, r[1])
  /\ UNCHANGED <<recVars, line_buffer, line, terminating_tokens, pc, err, func, key,
                 mat, one_row, obj, const_i, histVars, auxVars>>

\* ------------------------------------------------------------- matrix reader

\* _read_matrix_trans: tok, pos = read_next_token(line, pos); check(tok == '[', ...)
MatrixOpen ==
  /\ pc = "matrix_open"
  /\ LET r == read_next_token(line, pos) IN
       /\ tok' = r[1]
       /\ pos' = r[2]
       /\ IF CheckFails(r[1] = LBracket)
          THEN pc' = "error" /\ err' = "expected ["
          ELSE pc' = "matrix" /\ err' = err
  /\ mat' = <<>>
  /\ one_row' = <<>>
  /\ UNCHANGED <<recVars, line_buffer, line, terminating_tokens, func, key, vector,
                 obj, const_i, histVars, auxVars>>

\* tok, pos = read_next_token(line, pos)
\* if tok == '[': tok, pos = read_next_token(line, pos)
MatrixToken ==
  LET r == read_next_token(line, pos) IN
    IF r[1] = LBracket THEN read_next_token(line, r[2]) ELSE r

\* if len(one_row) > 0: mat.append(one_row)
RowsWith(m, row) == IF Len(row) > 0 THEN Append(m, row) ELSE m

\* tok == ']' ends the row and the matrix:
\* return np.transpose(np.array(mat, dtype=np.float32)), line, pos
MatrixClose ==
  /\ pc = "matrix"
  /\ MatrixToken[1] = RBracket
  /\ tok' = MatrixToken[1]
  /\ pos' = MatrixToken[2]
  /\ mat' = RowsWith(mat, one_row)
  /\ IF IsRect(RowsWith(mat, one_row))
     THEN /\ pc' = "store" /\ err' = err
          /\ obj' = PyObject("matrix", Transpose(RowsWith(mat, one_row)))
     ELSE pc' = "error" /\ err' = "ValueError" /\ obj' = obj
  /\ UNCHANGED <<recVars, line_buffer, line, terminating_tokens, func, key, vector,
                 one_row, const_i, histVars, auxVars>>

\* tok is None ends the row: line = next(line_buffer); pos = 0
MatrixNextLine ==
  /\ pc = "matrix"
  /\ MatrixToken[1] = None
  /\ tok' = None
  /\ mat' = RowsWith(mat, one_row)
  /\ one_row' = <<>>
  /\ PullLine
  /\ UNCHANGED <<recVars, terminating_tokens, pc, err, func, key, vector, obj,
                 const_i, histVars, auxVars>>

MatrixEofRaises ==
  /\ pc = "matrix"
  /\ MatrixToken[1] = None
  /\ tok' = None
  /\ pos' = MatrixToken[2]
  /\ mat' = RowsWith(mat, one_row)
  /\ PullRaises("matrix")
  /\ UNCHANGED <<recVars, line_buffer, line, terminating_tokens, func, key, vector,
                 one_row, obj, const_i, inputs0, attrs_read, attrs0,
                 stored, auxVars>>

\* check(line is not None, 'Encountered EOF while reading matrix.')
MatrixEofNone ==
  /\ pc = "matrix"
  /\ MatrixToken[1] = None
  /\ tok' = None
  /\ pos' = MatrixToken[2]
  /\ mat' = RowsWith(mat, one_row)
  /\ PullNone("matrix", "Encountered EOF while reading matrix.")
  /\ UNCHANGED <<recVars, line_buffer, line, terminating_tokens, func, key, vector,
                 one_row, obj, const_i, inputs0, attrs_read, attrs0,
                 stored, auxVars>>

\* one_row.append(float(tok)); saw_newline, pos = __check_for_newline(line, pos);
\* a newline ends the row, and the outer loop starts the next one.
MatrixNumber ==
  /\ pc = "matrix"
  /\ MatrixToken[1] \notin {RBracket, None}
  /\ tok' = MatrixToken[1]
  /\ IF ~IsFloatLiteral(MatrixToken[1])
     THEN /\ pc' = "error" /\ err' = "ValueError"
          /\ pos' = MatrixToken[2]
          /\ UNCHANGED <<mat, one_row>>
     ELSE LET row == Append(one_row, FloatValue(MatrixToken[1]))
              nl == check_for_newline(line, MatrixToken[2])
          IN /\ UNCHANGED <<pc, err>>
             /\ pos' = nl[2]
             /\ IF nl[1]
                THEN mat' = Append(mat, row) /\ one_row' = <<>>
                ELSE mat' = mat /\ one_row' = row
  /\ UNCHANGED <<recVars, line_buffer, line, terminating_tokens, func, key, vector,
                 obj, const_i, histVars, auxVars>>

\* ----------------------------------------------------- adjustment, promotion

\* numpy broadcasting of two 1-D arrays: equal lengths, or one of length 1.
BroadcastOk(a, b) == Len(a) = Len(b) \/ Len(a) = 1 \/ Len(b) = 1

BroadcastLen(a, b) == IF Len(a) = 1 THEN Len(b) ELSE Len(a)

At(a, i) == IF Len(a) = 1 THEN a[1] ELSE a[i]

\* BatchNormComponent._adjust_attributes on attributes a that hold all four
\* keys. stats_var + epsilon is positive for every line of the model (numpy
\* gives inf or nan on zero and negative values).
BatchNormScale(a) ==
  [i \in 1..Len(a["stats_var"]) |->
     FMul(a["target_rms"], PowNegHalf(a["stats_var"][i] + a["epsilon"]))]

\* A faulty variant of BatchNormShift: the raw variance is left in place.
BatchNormShiftRaw(a) == a["stats_var"]

BatchNormShift(a) ==
  [i \in 1..BroadcastLen(BatchNormScale(a), a["stats_mean"]) |->
     -FMul(At(BatchNormScale(a), i), At(a["stats_mean"], i))]

BatchNormKeys == {"stats_var", "epsilon", "target_rms", "stats_mean"}

\* A faulty variant of Adjust: no class adjusts anything.
AdjustSkipped ==
  /\ pc = "adjust"
  /\ pc' = "lift_dim"
  /\ UNCHANGED <<attrs, err>>
  /\ UNCHANGED <<ctype, name, inputs, dim, consts, argVars, locVars, histVars, auxVars>>

\* self._adjust_attributes(): a no-op but for BatchNormComponent, where a missing
\* key is a KeyError and arrays that do not broadcast are a ValueError.
Adjust ==
  /\ pc = "adjust"
  /\ IF ctype # "BatchNormComponent"
     THEN pc' = "lift_dim" /\ UNCHANGED <<attrs, err>>
     ELSE IF ~(BatchNormKeys \subseteq DOMAIN attrs)
     THEN pc' = "error" /\ err' = "KeyError" /\ UNCHANGED attrs
     ELSE IF ~BroadcastOk(BatchNormScale(attrs), attrs["stats_mean"])
     THEN pc' = "error" /\ err' = "ValueError" /\ UNCHANGED attrs
     ELSE /\ pc' = "lift_dim"
          /\ err' = err
          /\ attrs' = DictSet(DictSet(attrs, "stats_var", BatchNormShift(attrs)),
                              "stats_mean", BatchNormScale(attrs))
  /\ UNCHANGED <<ctype, name, inputs, dim, consts, argVars, locVars, histVars, auxVars>>

\* A faulty variant of LiftDim: dim is copied to the field and stays an attribute.
LiftDimKeeps ==
  /\ pc = "lift_dim"
  /\ IF "dim" \in DOMAIN attrs
     THEN dim' = <<attrs["dim"]>> /\ attrs' = attrs
     ELSE UNCHANGED <<dim, attrs>>
  /\ attrs0' = attrs'
  /\ const_i' = 1
  /\ pc' = "promote"
  /\ UNCHANGED <<ctype, name, inputs, consts, argVars, err, tok, func, key, vector,
                 mat, one_row, obj, inputs0, attrs_read, stored,
                 eof_in, auxVars>>

\* if 'dim' in self._attrs: self.dim = self._attrs['dim']; self._attrs.pop('dim')
LiftDim ==
  /\ pc = "lift_dim"
  /\ IF "dim" \in DOMAIN attrs
     THEN dim' = <<attrs["dim"]>> /\ attrs' = DictPop(attrs, "dim")
     ELSE UNCHANGED <<dim, attrs>>
  /\ attrs0' = attrs'
  /\ const_i' = 1
  /\ pc' = "promote"
  /\ UNCHANGED <<ctype, name, inputs, consts, argVars, err, tok, func, key, vector,
                 mat, one_row, obj, inputs0, attrs_read, stored,
                 eof_in, auxVars>>

\* One round of: for const_name in const_names
Promote ==
  /\ pc = "promote"
  /\ LET k == const_names[const_i] IN
       IF k \notin DOMAIN attrs
       THEN UNCHANGED <<attrs, inputs, consts>>
       ELSE IF IsEmptyBias(k, attrs[k])
       THEN attrs' = DictPop(attrs, k) /\ UNCHANGED <<inputs, consts>>
       ELSE /\ inputs' = Append(inputs, new_const_name(name, k))
            /\ consts' = DictSet(consts, new_const_name(name, k), attrs[k])
            /\ attrs' = DictPop(attrs, k)
  /\ const_i' = const_i + 1
  /\ pc' = IF const_i = Len(const_names) THEN "done" ELSE "promote"
  /\ UNCHANGED <<ctype, name, dim, argVars, err, tok, func, key, vector, mat,
                 one_row, obj, histVars, auxVars>>

\* ------------------------------------------------------ read_attributes: Spec

\* Number tokens.
N(d) == <<DigitChar(d)>>
NHalf == <<"0", ".", "5">>
NMilli == <<"0", ".", "0", "0", "1">>
NMinus1 == <<"-", "1">>
TokX == <<"x">>

\* A line: its tokens, one space between each two.
W(ts) == Join(SP, ts)

LnEnd == W(<<TokEnd>>)
LnFoo == W(<<TokFoo, LBracket, N(1), RBracket>>)

\* Declaration lines of a Component.
ComponentLines ==
  { W(<<TokDim, N(3)>>),
    W(<<TokDim, N(4), TokEnd>>),
    W(<<TokInputDim, N(2), TokOutputDim, N(5)>>) \o NL,
    W(<<TokDim>>),
    W(<<TokDim, NHalf>>),
    LnFoo,
    LnEnd }

\* Declaration lines of an AffineComponent: matrices on one line and over
\* several, an empty bias, a bias over several lines, a repeated params tag.
AffineLines ==
  { W(<<TokLinearParams, LBracket, N(1), N(2), NL, N(3), N(4), RBracket>>),
    W(<<TokLinearParams, LBracket>>) \o NL,
    SP \o W(<<N(1), N(2)>>) \o NL,
    SP \o W(<<N(3), N(4), RBracket, TokEnd>>) \o NL,
    SP \o W(<<N(7), RBracket>>),
    W(<<TokBiasParams, LBracket, RBracket>>),
    W(<<TokBiasParams, LBracket, NHalf, NHalf, RBracket, TokEnd>>),
    W(<<TokBiasParams, LBracket>>),
    W(<<TokParams, LBracket, N(5), N(6), RBracket, TokEnd>>),
    LnFoo,
    LnEnd }

\* Declaration lines of a BatchNormComponent.
BatchNormLines ==
  { W(<<TokDim, N(3), TokEpsilon, NMilli, TokTargetRms, N(1)>>),
    W(<<TokStatsMean, LBracket, N(0), N(1), RBracket,
        TokStatsVar, LBracket, N(0), N(3), RBracket>>),
    W(<<TokStatsMean, LBracket, N(0), RBracket,
        TokStatsVar, LBracket, N(0), RBracket, TokEnd>>),
    W(<<TokStatsMean, LBracket, N(1), N(2), N(3), RBracket>>),
    W(<<TokEpsilon, N(1), TokStatsVar, LBracket, N(3), RBracket>>),
    LnEnd }

\* Declaration lines of a TdnnComponent.
TdnnLines ==
  { W(<<TokTimeOffsets, LBracket, NMinus1, N(0), N(1), RBracket>>),
    W(<<TokTimeOffsets, LBracket, NHalf, RBracket>>),
    W(<<TokLinearParams, LBracket, N(1), N(2), RBracket>>),
    W(<<TokBiasParams, LBracket, RBracket, TokEnd>>),
    W(<<TokBiasParams, LBracket, N(7), RBracket>>),
    LnEnd }

Lines(t) ==
  CASE t = "Component" -> ComponentLines
    [] t = "AffineComponent" -> AffineLines
    [] t = "BatchNormComponent" -> BatchNormLines
    [] t = "TdnnComponent" -> TdnnLines

SeqsUpTo(S, n) == UNION {[1..k -> S] : k \in 0..n}

\* What the caller passes: the inputs of the component node and the tokens that
\* end a declaration.
Callers ==
  { [inputs |-> <<<<"x">>>>, terminating |-> {TokEnd}],
    [inputs |-> <<<<"x">>, <<"y">>>>, terminating |-> {TokEnd, TokFoo}] }

\* Every variable the specification at hand does not use.
IdleRecord ==
  /\ ctype = "Component" /\ name = <<"L", "1">> /\ inputs = <<>>
  /\ dim = <<>> /\ attrs = EmptyDict /\ consts = EmptyDict

IdleArgs == line_buffer = <<>> /\ line = <<>> /\ pos = 0 /\ terminating_tokens = {}

IdleLocals ==
  /\ tok = None /\ func = "" /\ key = "" /\ vector = <<>> /\ mat = <<>>
  /\ one_row = <<>> /\ obj = NoObject /\ const_i = 0

IdleHistory ==
  /\ inputs0 = <<>> /\ attrs_read = EmptyDict /\ attrs0 = EmptyDict
  /\ stored = <<>> /\ eof_in = ""

IdleAux ==
  /\ start = 0 /\ calls = <<>> /\ src_rows = <<>> /\ cand = <<>>
  /\ components = <<>>

\* Component.__init__(component_id, name, inputs), then the call of
\* read_attributes(line_buffer, line, pos, terminating_tokens).
Init ==
  /\ ctype \in ComponentTypes
  /\ name = <<"L", "1">>
  /\ \E c \in Callers : inputs = c.inputs /\ terminating_tokens = c.terminating
  /\ dim = <<>>
  /\ attrs = EmptyDict
  /\ consts = EmptyDict
  /\ line \in Lines(ctype)
  /\ line_buffer \in SeqsUpTo(Lines(ctype), MaxLines)
  /\ pos = 0
  /\ pc = "loop"
  /\ err = ""
  /\ IdleLocals
  /\ inputs0 = inputs /\ attrs_read = EmptyDict /\ attrs0 = EmptyDict
  /\ stored = <<>> /\ eof_in = ""
  /\ IdleAux

Next ==
  \/ AttrBreak \/ AttrNextLine \/ AttrEofRaises \/ AttrEofNone \/ AttrAction
  \/ AttrSkip \/ AttrStore
  \/ ReadInt \/ ReadFloat
  \/ VectorOpen \/ VectorClose \/ VectorNextLine \/ VectorEofRaises
  \/ VectorEofNone \/ VectorAppend
  \/ MatrixOpen \/ MatrixClose \/ MatrixNextLine \/ MatrixEofRaises
  \/ MatrixEofNone \/ MatrixNumber
  \/ Adjust \/ LiftDim \/ Promote

Spec == Init /\ [][Next]_vars

\* read_attributes runs on: the interpreter takes the next step of the call
\* whenever there is one.
SpecLive == Spec /\ WF_vars(Next)

\* ------------------------------------------------- read_next_token: SpecToken

\* Every line of at most MaxLen characters over two letters, a space and a
\* newline; the first call starts at any offset of the line.
TokenAlphabet == {"a", "b", " ", "\n"}

InitToken ==
  /\ IdleRecord
  /\ line \in SeqsUpTo(TokenAlphabet, MaxLen)
  /\ pos \in 0..Len(line)
  /\ line_buffer = <<>> /\ terminating_tokens = {}
  /\ pc = "token" /\ err = ""
  /\ IdleLocals /\ IdleHistory
  /\ start = pos /\ calls = <<>> /\ src_rows = <<>> /\ cand = <<>>
  /\ components = <<>>

\* token, pos = read_next_token(line, pos), called until it returns None.
NextToken ==
  /\ pc = "token"
  /\ LET r == read_next_token(line, pos) IN
       /\ tok' = r[1]
       /\ pos' = r[2]
       /\ calls' = Append(calls, [from |-> pos, tok |-> r[1], to |-> r[2]])
       /\ pc' = IF r[1] = None THEN "token_end" ELSE "token"
  /\ UNCHANGED <<recVars, line_buffer, line, terminating_tokens, err, func, key,
                 vector, mat, one_row, obj, const_i, histVars, start, src_rows,
                 cand, components>>

SpecToken == InitToken /\ [][NextToken]_vars

\* --------------------------------------------- read_component_type: SpecType

\* Candidate type tags: an opening, MaxMid or fewer filler letters (or 'Affine')
\* and a closing; the line holds the candidate between optional blanks.
TypeOpenings == {<<>>, <<"<">>, <<"x">>}

TypeFillers == {[i \in 1..k |-> "A"] : k \in 0..MaxMid} \cup {<<"A", "f", "f", "i", "n", "e">>}

TypeClosings ==
  { StrComponentGt, <<"C", "o", "m", "p", "o", "n", "e", "n", "t">>,
    <<"c", "o", "m", "p", "o", "n", "e", "n", "t", ">">>, <<">">>, <<>> }

InitType ==
  /\ IdleRecord
  /\ cand \in {o \o f \o c : o \in TypeOpenings, f \in TypeFillers, c \in TypeClosings}
  /\ \E lead \in {<<>>, SP}, trail \in {<<>>, NL, SP \o TokDim} :
       line = lead \o cand \o trail
  /\ pos = 0
  /\ line_buffer = <<>> /\ terminating_tokens = {}
  /\ pc = "type" /\ err = ""
  /\ IdleLocals /\ IdleHistory
  /\ start = 0 /\ calls = <<>> /\ src_rows = <<>> /\ components = <<>>

\* component_type, pos = read_component_type(line, pos)
ReadType ==
  /\ pc = "type"
  /\ LET r == read_component_type(line, pos) IN
       IF r.ok
       THEN pc' = "type_read" /\ tok' = r.type /\ pos' = r.pos /\ err' = err
       ELSE pc' = "error" /\ err' = "ValueError" /\ UNCHANGED <<tok, pos>>
  /\ UNCHANGED <<recVars, line_buffer, line, terminating_tokens, func, key, vector,
                 mat, one_row, obj, const_i, histVars, auxVars>>

SpecType == InitType /\ [][ReadType]_vars

\* ------------------------------------------- vector attributes: SpecVector

\* A vector attribute is written from MaxElems or fewer number tokens, the i-th
\* spelling i: the tag, '[', the elements and ']', then nothing, an unknown tag
\* or a terminating token. After '[' and after each element the text goes on on
\* the same line ("sp"), on the next line after a newline ("eol") or without one
\* ("cut"), or on the line after a blank line ("blank"). A closing line follows
\* the declaration.
MaxElems == 3

VectorGaps == {"sp", "eol", "cut", "blank"}

RECURSIVE VectorText(_, _, _, _)
VectorText(V, i, done, cur) ==
  LET n == Len(V.elems)
      text == IF i = 0 THEN cur ELSE cur \o V.elems[i]
  IN IF i > n
     THEN Append(done, cur \o RBracket \o (IF V.after = None THEN <<>> ELSE SP \o V.after))
     ELSE CASE V.gaps[i] = "sp" -> VectorText(V, i + 1, done, text \o SP)
            [] V.gaps[i] = "eol" -> VectorText(V, i + 1, Append(done, text \o NL), <<>>)
            [] V.gaps[i] = "cut" -> VectorText(V, i + 1, Append(done, text), <<>>)
            [] V.gaps[i] = "blank" ->
                 VectorText(V, i + 1, Append(Append(done, text \o NL), SP \o NL), <<>>)

VectorLines(V) == VectorText(V, 0, <<>>, V.tag \o SP \o LBracket) \o <<LnEnd>>

VectorLayouts ==
  UNION { { [tag |-> tag, elems |-> [i \in 1..n |-> N(i)], gaps |-> gaps, after |-> after] :
            tag \in {TokTimeOffsets, TokBiasParams}, gaps \in [0..n -> VectorGaps],
            after \in {None, TokFoo, TokEnd} } :
          n \in 0..MaxElems }

InitVector ==
  /\ ctype = "TdnnComponent" /\ name = <<"L", "1">> /\ inputs = <<<<"x">>>>
  /\ dim = <<>> /\ attrs = EmptyDict /\ consts = EmptyDict
  /\ \E V \in VectorLayouts :
       /\ src_rows = <<V.elems>>
       /\ cand = V.after
       /\ line = Head(VectorLines(V))
       /\ line_buffer = Tail(VectorLines(V))
  /\ pos = 0
  /\ terminating_tokens = {TokEnd}
  /\ pc = "loop" /\ err = ""
  /\ IdleLocals
  /\ inputs0 = inputs /\ attrs_read = EmptyDict /\ attrs0 = EmptyDict
  /\ stored = <<>> /\ eof_in = ""
  /\ start = 0 /\ calls = <<>> /\ components = <<>>

\* The read loop of read_attributes with the vector readers.
NextVector ==
  \/ AttrAction \/ VectorOpen \/ VectorAppend \/ VectorNextLine \/ VectorClose
  \/ AttrStore \/ AttrSkip \/ AttrNextLine \/ AttrBreak

SpecVector == InitVector /\ [][NextVector]_vars

\* ------------------------------------------------ _read_matrix_trans: SpecMatrix

\* A matrix literal is written from src_rows, MaxRows or fewer rows that are
\* empty or hold cols number tokens, the token of row i, column j spelling
\* (i - 1) * cols + j. After '[' the literal goes on on the same line or on the
\* next one; a row is ended by a newline inside the line ("nl"), by the end of a
\* line that ends in a newline ("eol") or of one that does not ("cut"); the last
\* row is ended by ']' itself ("direct") or as the others, ']' following; a row
\* may open with a second '['.
RowEnds == {"nl", "eol", "cut"}

MatrixCell(i, j, cols) == N(((i - 1) * cols + j) % 10)

RowText(row, nested) ==
  IF Len(row) = 0 THEN <<>>
  ELSE (IF nested THEN LBracket \o SP ELSE <<>>) \o W(row)

\* The lines of the literal from row i on: done are the finished lines, cur the
\* line being written.
RECURSIVE Layout(_, _, _, _)
Layout(L, i, done, cur) ==
  IF i > Len(L.rows) THEN Append(done, cur \o RBracket)
  ELSE LET text == cur \o RowText(L.rows[i], L.nested) IN
    IF i = Len(L.rows) /\ L.last = "direct" THEN Append(done, text \o SP \o RBracket)
    ELSE CASE L.ends[i] = "nl" -> Layout(L, i + 1, done, text \o SP \o NL \o SP)
           [] L.ends[i] = "eol" -> Layout(L, i + 1, Append(done, text \o NL), <<>>)
           [] L.ends[i] = "cut" -> Layout(L, i + 1, Append(done, text), <<>>)

Serialise(L) ==
  IF L.open = "same" THEN Layout(L, 1, <<>>, LBracket \o SP)
  ELSE Layout(L, 1, <<LBracket \o NL>>, <<>>)

MatrixLayouts ==
  UNION { { [rows |-> [i \in 1..n |-> IF present[i]
                                      THEN [j \in 1..cols |-> MatrixCell(i, j, cols)]
                                      ELSE <<>>],
             ends |-> ends, last |-> last, open |-> open, nested |-> nested] :
            present \in [1..n -> BOOLEAN], ends \in [1..n -> RowEnds],
            last \in {"direct", "ended"}, open \in {"same", "next"},
            nested \in BOOLEAN, cols \in 1..MaxCols } :
          n \in 0..MaxRows }

InitMatrix ==
  /\ ctype = "AffineComponent" /\ name = <<"L", "1">> /\ inputs = <<>>
  /\ dim = <<>> /\ attrs = EmptyDict /\ consts = EmptyDict
  /\ \E L \in MatrixLayouts :
       /\ src_rows = L.rows
       /\ line = Head(Serialise(L))
       /\ line_buffer = Tail(Serialise(L))
  /\ pos = 0
  /\ terminating_tokens = {TokEnd}
  /\ pc = "matrix_open" /\ err = ""
  /\ tok = None /\ func = "_read_matrix_trans" /\ key = "params"
  /\ vector = <<>> /\ mat = <<>> /\ one_row = <<>> /\ obj = NoObject /\ const_i = 0
  /\ IdleHistory
  /\ start = 0 /\ calls = <<>> /\ cand = <<>> /\ components = <<>>

NextMatrix == MatrixOpen \/ MatrixNumber \/ MatrixNextLine \/ MatrixClose

SpecMatrix == InitMatrix /\ [][NextMatrix]_vars

\* ------------------------------------------- synthesized components: SpecNames

\* str(n) of a natural number.
RECURSIVE IntChars(_)
IntChars(n) == IF n < 10 THEN <<DigitChar(n)>> ELSE IntChars(n \div 10) \o <<DigitChar(n % 10)>>

\* The fraction digits of f units: three digits, trailing zeros dropped, one kept.
FracChars(f) ==
  IF f = 0 THEN <<"0">>
  ELSE IF f % 100 = 0 THEN <<DigitChar(f \div 100)>>
  ELSE IF f % 10 = 0 THEN <<DigitChar(f \div 100), DigitChar((f \div 10) % 10)>>
  ELSE <<DigitChar(f \div 100), DigitChar((f \div 10) % 10), DigitChar(f % 10)>>

\* f'{offset}' of a float: str(1.0) is '1.0', str(-0.5) is '-0.5'.
FormatFloat(v) ==
  LET a == IF v < 0 THEN -v ELSE v IN
    (IF v < 0 THEN <<"-">> ELSE <<>>)
    \o IntChars(a \div FloatScale) \o <<".">> \o FracChars(a % FloatScale)

\* Component.__init__ as the synthesized classes call it; node_type is None
\* ("") but for SumComponent.
NewComponent(cls, id, n, ins, node_type, args) ==
  [cls |-> cls, id |-> id, name |-> n, inputs |-> ins, type |-> node_type,
   dim |-> <<>>, args |-> args]

\* OffsetComponent.__init__: name = f'{input_name}.offset.{offset}'
OffsetComponent(id, input_name, offset) ==
  NewComponent("OffsetComponent", id, input_name \o StrOffset \o FormatFloat(offset),
               <<input_name>>, "", [input_name |-> input_name, offset |-> offset])

\* ReplaceIndexComponent.__init__:
\* name = f'{input_name}.ReplaceIndex.{var_name}{time_index}'
ReplaceIndexComponent(id, input_name, var_name, time_index) ==
  NewComponent("ReplaceIndexComponent", id,
               input_name \o StrReplaceIndex \o var_name \o time_index, <<input_name>>, "",
               [input_name |-> input_name, var_name |-> var_name,
                time_index |-> time_index])

\* ScaleComponent.__init__: name = f'{input_name}.scale.{scale}'
ScaleComponent(id, input_name, scale) ==
  NewComponent("ScaleComponent", id, input_name \o StrScale \o FormatFloat(scale),
               <<input_name>>, "", [input_name |-> input_name, scale |-> scale])

\* SumComponent.__init__: name = '.sum.'.join(inputs), node_type 'Sum'
SumComponent(id, ins) ==
  NewComponent("SumComponent", id, Join(StrSum, ins), ins, "Sum", [inputs |-> ins])

\* Names of the nodes a synthesized component is built over: plain names and
\* names of sums built earlier.
InputNames ==
  { <<"a">>, <<"b">>, <<"c">>,
    <<"a">> \o StrSum \o <<"b">>, <<"b">> \o StrSum \o <<"c">> }

FloatArgs == {-1000, 0, 500, 1000}
VarNames == {<<"t">>, <<"t", "1">>}
TimeIndexes == {<<"0">>, <<"1", "0">>}

InitNames ==
  /\ IdleRecord /\ IdleArgs /\ IdleLocals /\ IdleHistory
  /\ pc = "names" /\ err = ""
  /\ start = 0 /\ calls = <<>> /\ src_rows = <<>> /\ cand = <<>>
  /\ components = <<>>

Build(c) ==
  /\ pc = "names"
  /\ Len(components) < MaxComponents
  /\ components' = Append(components, c)
  /\ UNCHANGED <<recVars, argVars, pc, err, locVars, histVars, start, calls,
                 src_rows, cand>>

NewOffset ==
  \E i \in InputNames, o \in FloatArgs : Build(OffsetComponent(Len(components), i, o))

NewReplaceIndex ==
  \E i \in InputNames, v \in VarNames, t \in TimeIndexes :
    Build(ReplaceIndexComponent(Len(components), i, v, t))

NewScale ==
  \E i \in InputNames, x \in FloatArgs : Build(ScaleComponent(Len(components), i, x))

NewSum ==
  \E n \in 1..MaxSumInputs : \E ins \in [1..n -> InputNames] :
    Build(SumComponent(Len(components), ins))

NextNames == NewOffset \/ NewReplaceIndex \/ NewScale \/ NewSum

SpecNames == InitNames /\ [][NextNames]_vars

\* ------------------------------------------------------------- properties

Range(q) == {q[i] : i \in 1..Len(q)}

\* The whitespace-separated words of s, gathered character by character.
RECURSIVE WordsFrom(_, _, _, _)
WordsFrom(s, i, cur, acc) ==
  IF i > Len(s) THEN (IF Len(cur) = 0 THEN acc ELSE Append(acc, cur))
  ELSE IF IsSpace(s[i])
  THEN WordsFrom(s, i + 1, <<>>, IF Len(cur) = 0 THEN acc ELSE Append(acc, cur))
  ELSE WordsFrom(s, i + 1, Append(cur, s[i]), acc)

Words(s) == WordsFrom(s, 1, <<>>, <<>>)

\* The words of s from offset p on, and the first of them (None if there is none).
Rest(s, p) == Words(SubSeq(s, p + 1, Len(s)))

NextWord(s, p) == IF Len(Rest(s, p)) = 0 THEN None ELSE Rest(s, p)[1]

Blank(s, a, b) == \A i \in a..b : IsSpace(s[i])

Solid(s, a, b) == \A i \in a..b : ~IsSpace(s[i])

ConstKeys == {"params", "bias", "stats_mean", "stats_var"}

\* 'N_k' written out for the component's name N.
Prefixed(k) == name \o <<"_">> \o KeyChars(k)

\* C1. Constant promotion of bias: when read_attributes has returned, a bias of
\* length 0 has left no 'bias' attribute, no 'N_bias' constant and no 'N_bias'
\* input; a non-empty bias is the constant 'N_bias', is named in inputs and is
\* no attribute any more.
C1_BiasPromotion ==
  (pc = "done" /\ "bias" \in DOMAIN attrs0) =>
    /\ "bias" \notin DOMAIN attrs
    /\ IF Len(attrs0["bias"]) = 0
       THEN Prefixed("bias") \notin DOMAIN consts /\ Prefixed("bias") \notin Range(inputs)
       ELSE Prefixed("bias") \in DOMAIN consts /\ Prefixed("bias") \in Range(inputs)

\* An empty bias was read, beside a matrix that was promoted.
C1_Witness ==
  /\ pc = "done"
  /\ "bias" \in DOMAIN attrs0
  /\ Len(attrs0["bias"]) = 0
  /\ Prefixed("params") \in DOMAIN consts

\* The keys promotion moves, in the order the claim gives.
PromotedKeys(a) ==
  LET Moved(k) == k \in DOMAIN a /\ ~(k = "bias" /\ Len(a[k]) = 0)
  IN SelectSeq(<<"params", "bias", "stats_mean", "stats_var">>, Moved)

\* C2. Promotion order: when read_attributes has returned, inputs is the inputs
\* of before the call followed by the promoted names in the order params, bias,
\* stats_mean, stats_var, in whatever order the tags were read; an affine
\* declaration with params and a non-empty bias ends with exactly two constants
\* and with 'N_params', 'N_bias' appended.
C2_PromotionOrder ==
  pc = "done" =>
    /\ inputs = inputs0 \o [i \in 1..Len(PromotedKeys(attrs0)) |->
                              Prefixed(PromotedKeys(attrs0)[i])]
    /\ ( /\ ctype = "AffineComponent"
         /\ {"params", "bias"} \subseteq DOMAIN attrs0
         /\ Len(attrs0["bias"]) > 0 )
       => /\ Cardinality(DOMAIN consts) = 2
          /\ inputs = inputs0 \o <<Prefixed("params"), Prefixed("bias")>>

\* An affine declaration whose bias tag came before its params tag.
C2_Witness ==
  /\ pc = "done"
  /\ ctype = "AffineComponent"
  /\ stored = <<"bias", "params">>
  /\ Prefixed("bias") \in DOMAIN consts
  /\ Len(consts[Prefixed("bias")]) > 0
  /\ inputs = inputs0 \o <<Prefixed("params"), Prefixed("bias")>>

\* One call of read_next_token on s: from offset c.from it returned c.tok and c.to.
CallOk(s, c) ==
  /\ c.to >= c.from
  /\ (c.tok = None) <=> Blank(s, c.from + 1, Len(s))
  /\ c.tok # None =>
       \E a \in c.from..(Len(s) - 1) :
         /\ Blank(s, c.from + 1, a)
         /\ c.to \in (a + 1)..Len(s)
         /\ Solid(s, a + 1, c.to)
         /\ c.to = Len(s) \/ IsSpace(s[c.to + 1])
         /\ c.tok = SubSeq(s, a + 1, c.to)

\* C3. Tokenizer: from every offset of every line, read_next_token returns None
\* exactly when only whitespace is left; otherwise the maximal run of
\* non-whitespace that starts at the first non-whitespace offset, with the
\* offset just past it; the offset never decreases; and calling it from 0 until
\* None yields the words of the line, left to right, each once.
C3_Tokenizer ==
  /\ \A k \in 1..Len(calls) : CallOk(line, calls[k])
  /\ (pc = "token_end" /\ start = 0) =>
       [k \in 1..(Len(calls) - 1) |-> calls[k].tok] = Words(line)

\* A line with a newline in it, read from offset 0 to its end: two words, the
\* first of two characters or more.
C3_Witness ==
  /\ pc = "token_end"
  /\ start = 0
  /\ Len(calls) = 3
  /\ Len(calls[1].tok) >= 2
  /\ \E i \in 1..Len(line) : line[i] = "\n"

StartsWith(t, pre) == Len(t) >= Len(pre) /\ SubSeq(t, 1, Len(pre)) = pre

EndsWith(t, suf) == Len(t) >= Len(suf) /\ SubSeq(t, Len(t) - Len(suf) + 1, Len(t)) = suf

Acceptable(t) == Len(t) >= 13 /\ StartsWith(t, <<"<">>) /\ EndsWith(t, StrComponentGt)

StrAffine == <<"A", "f", "f", "i", "n", "e">>

\* C4. Type-tag validation: read_component_type returns the next token exactly
\* when it has 13 characters or more, begins with '<' and ends with
\* 'Component>'; on every other token, and on no token, it raises and returns
\* nothing. '<AffineComponent>' is accepted, '<Affine>' and 'AffineComponent>'
\* are rejected.
C4_TypeTag ==
  pc # "type" =>
    /\ IF Acceptable(NextWord(line, start))
       THEN pc = "type_read" /\ tok = NextWord(line, start) /\ err = ""
       ELSE pc = "error" /\ err = "ValueError" /\ tok = None
    /\ cand = <<"<">> \o StrAffine \o StrComponentGt => pc = "type_read"
    /\ cand = <<"<">> \o StrAffine \o <<">">> => pc = "error"
    /\ cand = StrAffine \o StrComponentGt => pc = "error"

\* The shortest tag that is accepted.
C4_Witness == pc = "type_read" /\ Len(tok) = 13 /\ tok = cand

NonEmptyRows(rows) == LET Filled(r) == Len(r) > 0 IN SelectSeq(rows, Filled)

ExampleMatrixLine == W(<<LBracket, N(1), N(2), NL, N(3), N(4), RBracket>>)

EofMessage(where) ==
  CASE where = "attributes" -> "Error parsing nnet3 file."
    [] where = "vector" -> "Encountered EOF while reading vector."
    [] where = "matrix" -> "Encountered EOF while reading matrix."

\* C6. End of input is a fatal parse error: when the line source is exhausted
\* in the attribute loop, in a vector reader or in the matrix reader, the call
\* ends in the parse error of that construct ('Error parsing nnet3 file.',
\* 'Encountered EOF while reading vector.' / '... matrix.') and returns nothing.
C6_EofIsParseError ==
  eof_in # "" => pc = "error" /\ err = EofMessage(eof_in)

ReaderPcs == {"read_int", "read_float", "vector_open", "vector", "matrix_open", "matrix"}

\* Where the reader f can stand.
PcsOf(f) ==
  CASE f = "_read_int" -> {"read_int"}
    [] f = "_read_float" -> {"read_float"}
    [] f \in {"_read_vector_int", "_read_vector_float"} -> {"vector_open", "vector"}
    [] f = "_read_matrix_trans" -> {"matrix_open", "matrix"}

\* The loop is about to read the word w at loop level.
AtLoopWord(w) == pc = "loop" /\ NextWord(line, pos) = w

\* The step took exactly the first of the words left on the line.
TookOneWord ==
  /\ line' = line
  /\ line_buffer' = line_buffer
  /\ Rest(line', pos') = Tail(Rest(line, pos))

\* C7. Attribute read loop: the loop stops at the first loop-level token of the
\* terminating set and reads nothing after it; a token that is neither
\* terminating nor a key of the table is skipped on its own: that one token is
\* taken, nothing is stored and what follows is read at loop level; a token that
\* is a key of the table runs its reader, and only it, and the value is stored
\* under the table's storage key.
C7_ReadLoop ==
  [][ /\ \A w \in terminating_tokens :
           AtLoopWord(w) => pc' = "adjust" /\ TookOneWord /\ attrs' = attrs
      /\ (pc = "loop" /\ pc' = "adjust") => NextWord(line, pos) \in terminating_tokens
      /\ pc \in {"adjust", "lift_dim", "promote", "done"} =>
           /\ UNCHANGED <<line, pos, line_buffer>>
           /\ pc' \notin ReaderPcs \cup {"loop", "store"}
      /\ ( /\ pc = "loop"
           /\ NextWord(line, pos) # None
           /\ NextWord(line, pos) \notin terminating_tokens
           /\ NextWord(line, pos) \notin DOMAIN actions )
         => /\ pc' = "loop"
            /\ TookOneWord
            /\ UNCHANGED <<attrs, stored, inputs, consts, dim>>
      /\ ( /\ pc = "loop"
           /\ NextWord(line, pos) \notin terminating_tokens
           /\ NextWord(line, pos) \in DOMAIN actions )
         => /\ TookOneWord
            /\ func' = actions[NextWord(line, pos)].func
            /\ key' = actions[NextWord(line, pos)].name
            /\ pc' \in PcsOf(func')
            /\ attrs' = attrs
      /\ pc \in ReaderPcs =>
           /\ UNCHANGED <<func, key, attrs, stored>>
           /\ pc' \in PcsOf(func) \cup {"store", "error"}
      /\ pc = "store" =>
           /\ pc' = "loop"
           /\ DOMAIN attrs' = DOMAIN attrs \cup {key}
           /\ attrs'[key] = obj.value
           /\ \A k \in DOMAIN attrs \ {key} : attrs'[k] = attrs[k]
           /\ UNCHANGED <<line, pos, line_buffer>>
    ]_vars

\* An unknown tag was skipped and the ']' of the literal after it has just been
\* read, and skipped, at loop level.
C7_Witness ==
  /\ pc = "loop"
  /\ tok = RBracket
  /\ TokFoo \notin terminating_tokens
  /\ stored = <<>>
  /\ pos = Len(LnFoo)

\* C8. Name derivation is collision-free: two components of one synthesized
\* class (Offset, ReplaceIndex, Scale, Sum) built from different constructor
\* arguments never get the same name.
C8_NamesCollisionFree ==
  \A i, j \in 1..Len(components) :
    ( /\ components[i].cls = components[j].cls
      /\ components[i].args # components[j].args )
    => components[i].name # components[j].name

\* C9. No self-reference: the name of a component is never one of its inputs,
\* right after the construction of a synthesized component (a sum of one input
\* included).
C9_NoSelfReference ==
  \A i \in 1..Len(components) : components[i].name \notin Range(components[i].inputs)

\* C10. Promotion is a move and constants are always prefixed: when
\* read_attributes has returned, none of params, bias, stats_mean, stats_var is
\* a key of attributes; every key of constants is 'N_k' for one of those k, is
\* an element of inputs, and holds what attributes held under k right before
\* promotion. At no step is a key both an attribute and a constant.
C10_PromotionMoves ==
  /\ \A k \in ConstKeys : ~(k \in DOMAIN attrs /\ Prefixed(k) \in DOMAIN consts)
  /\ pc = "done" =>
       /\ ConstKeys \cap DOMAIN attrs = {}
       /\ \A c \in DOMAIN consts :
            \E k \in ConstKeys \cap DOMAIN attrs0 :
              /\ c = Prefixed(k)
              /\ c \in Range(inputs)
              /\ consts[c] = attrs0[k]

\* A batch-norm declaration: both statistics are constants, and the other
\* attributes stay attributes.
C10_Witness ==
  /\ pc = "done"
  /\ DOMAIN consts = {Prefixed("stats_mean"), Prefixed("stats_var")}
  /\ DOMAIN attrs = {"epsilon", "target_rms"}
  /\ dim = <<3>>

\* The call has passed the dim lift.
Lifted == pc \in {"promote", "done"}

\* What holds of dim in every state.
DimLiftState ==
  /\ "dim" \notin Range(stored) => dim = <<>>
  /\ Lifted => "dim" \notin DOMAIN attrs
  /\ (Lifted /\ "dim" \in Range(stored)) => dim # <<>>
  /\ (pc = "done" /\ Words(line) = <<TokDim, N(4), TokEnd>>) => dim = <<4>>

\* What every step does to dim and to the 'dim' attribute.
DimLiftStep ==
  /\ (pc = "read_int" /\ pc' = "store") =>
       obj' = PyObject("int", IntValue(NextWord(line, pos)))
  /\ (pc = "store" /\ key = "dim") => attrs'["dim"] = obj.value
  /\ ( /\ "dim" \in DOMAIN attrs
       /\ pc # "lift_dim"
       /\ ~(pc = "store" /\ key = "dim") )
     => "dim" \in DOMAIN attrs' /\ attrs'["dim"] = attrs["dim"]
  /\ pc # "lift_dim" => dim' = dim
  /\ pc = "lift_dim" =>
       /\ dim' = IF "dim" \in DOMAIN attrs THEN <<attrs["dim"]>> ELSE dim
       /\ "dim" \notin DOMAIN attrs'
  /\ (Lifted /\ "dim" \notin DOMAIN attrs) => "dim" \notin DOMAIN attrs'

IsInverseRoot(r, x) ==
  /\ r >= 0
  /\ r * r * x <= FloatScale * FloatScale * FloatScale
  /\ (r + 1) * (r + 1) * x > FloatScale * FloatScale * FloatScale

\* scale = target_rms * (stats_var + epsilon)^(-1/2), elementwise, on the
\* attributes a as they were read.
IsScaleOf(scale, a) ==
  /\ Len(scale) = Len(a["stats_var"])
  /\ \A i \in 1..Len(scale) :
       \E r \in {PowNegHalf(a["stats_var"][i] + a["epsilon"])} :
         /\ IsInverseRoot(r, a["stats_var"][i] + a["epsilon"])
         /\ scale[i] = (a["target_rms"] * r) \div FloatScale

\* shift = -(scale * stats_mean), elementwise with numpy's broadcasting.
IsShiftOf(shift, scale, a) ==
  LET mean == a["stats_mean"]
      Elem(v, i) == IF Len(v) = 1 THEN v[1] ELSE v[i]
  IN /\ Len(shift) = (IF Len(scale) = 1 THEN Len(mean) ELSE Len(scale))
     /\ \A i \in 1..Len(shift) :
          shift[i] = -((Elem(scale, i) * Elem(mean, i)) \div FloatScale)

\* The statistics of the claim's example, as read: epsilon = 1e-3,
\* target_rms = 1.0, stats_mean = [0.0], stats_var = [0.0].
ExampleStatsRead ==
  /\ BatchNormKeys \subseteq DOMAIN attrs_read
  /\ attrs_read["epsilon"] = 1
  /\ attrs_read["target_rms"] = FloatScale
  /\ attrs_read["stats_mean"] = <<0>>
  /\ attrs_read["stats_var"] = <<0>>

\* C12. Stage order for batch-norm: nothing is promoted before the read loop has
\* ended and the adjustment has run; when read_attributes has returned on a
\* BatchNormComponent named N, 'N_stats_mean' is the scale
\* target_rms * (stats_var + epsilon)^(-1/2) and 'N_stats_var' is the shift
\* -(scale * stats_mean) of the statistics as read, and epsilon and target_rms
\* are still attributes. With epsilon = 1e-3, target_rms = 1.0, stats_mean = [0.0]
\* and stats_var = [0.0] the scale is (1e-3)^(-1/2) = 31.622 and the shift is 0.
C12_BatchNormStages ==
  /\ pc \notin {"promote", "done"} => consts = EmptyDict /\ inputs = inputs0
  /\ (ctype = "BatchNormComponent" /\ pc = "done") =>
       /\ BatchNormKeys \subseteq DOMAIN attrs_read
       /\ {Prefixed("stats_mean"), Prefixed("stats_var")} \subseteq DOMAIN consts
       /\ IsScaleOf(consts[Prefixed("stats_mean")], attrs_read)
       /\ IsShiftOf(consts[Prefixed("stats_var")], consts[Prefixed("stats_mean")],
                    attrs_read)
       /\ {"epsilon", "target_rms"} \subseteq DOMAIN attrs
       /\ attrs["epsilon"] = attrs_read["epsilon"]
       /\ attrs["target_rms"] = attrs_read["target_rms"]
       /\ ExampleStatsRead =>
            /\ consts[Prefixed("stats_mean")] = <<31622>>
            /\ consts[Prefixed("stats_var")] = <<0>>

\* The statistics of the example were read, adjusted and promoted.
C12_Witness ==
  /\ ctype = "BatchNormComponent"
  /\ pc = "done"
  /\ ExampleStatsRead
  /\ consts[Prefixed("stats_mean")] = <<31622>>

\* The array of the numbers 1..n, as the reader f returns it.
CountingArray(f, n) ==
  [i \in 1..n |-> IF f = "_read_vector_int" THEN i ELSE i * FloatScale]

\* C13. Readers that span lines: of a vector literal '[ e1 ... en ]' spread over
\* any number of lines the vector reader returns e1..en in source order
\* ('[ 1 2 3 ]' is the integer array [1,2,3]); it has pulled the lines of the
\* literal, each once, and no line after them; it returns the line that holds
\* ']' and the offset just past it; the attribute loop goes on with the token
\* that follows ']' on that line, and the value is stored once.
C13_VectorAcrossLines ==
  LET n == Len(src_rows[1])
      after == IF cand = None THEN <<>> ELSE <<cand>>
  IN /\ pc # "error"
     /\ pc = "store" =>
          /\ obj = PyObject("vector", CountingArray(func, n))
          /\ line_buffer = <<LnEnd>>
          /\ pos >= 1
          /\ line[pos] = "]"
          /\ Rest(line, pos) = after
          /\ ( /\ func = "_read_vector_int"
               /\ Words(line) = <<TokTimeOffsets, LBracket, N(1), N(2), N(3), RBracket>> \o after )
             => obj.value = <<1, 2, 3>>
     /\ (pc = "loop" /\ tok = RBracket) =>
          /\ stored = <<key>>
          /\ attrs = (key :> CountingArray(func, n))
          /\ NextWord(line, pos) = cand
          /\ line_buffer = <<LnEnd>>
     /\ pc = "adjust" =>
          /\ stored = <<key>>
          /\ attrs = (key :> CountingArray(func, n))
          /\ IF cand = TokEnd THEN line_buffer = <<LnEnd>> ELSE line_buffer = <<>>

\* An integer vector of three elements whose last element and ']' stand on a
\* line of their own, an unknown tag after them.
C13_Witness ==
  /\ pc = "store"
  /\ func = "_read_vector_int"
  /\ obj.value = <<1, 2, 3>>
  /\ Words(line) = <<N(3), RBracket, TokFoo>>

\* C14. Attribute reading is append-only: until the read loop ends, a step of
\* the loop or of a reader only adds keys to attributes; it removes no key and
\* replaces no value already stored, also when a tag is repeated or two tags
\* share a storage key.
C14_AppendOnly ==
  [][ /\ (pc \in ReaderPcs \cup {"loop", "store"}) =>
           \A k \in DOMAIN attrs : k \in DOMAIN attrs' /\ attrs'[k] = attrs[k]
    ]_vars

\* The heads of the attribute loop, of the vector loop and of the matrix loops.
LoopPcs == {"loop", "vector", "matrix"}

\* One pass of a loop: the loop is left, a line is pulled, or at least one
\* character of the current line is consumed.
LoopProgress ==
  pc \in LoopPcs =>
    \/ pc' # pc
    \/ Len(line_buffer') < Len(line_buffer)
    \/ line' = line /\ line_buffer' = line_buffer /\ pos' > pos

\* C15. Termination: on every finite line source read_attributes returns or
\* ends in an error; every pass of the attribute loop, of the vector loop and of
\* the matrix loops consumes at least one character of the current line, pulls
\* a new line or leaves the loop.
C15_Termination == <>(pc \in {"done", "error"}) /\ [][LoopProgress]_vars

\* A matrix with a newline in it and a vector were read over two lines, the
\* source is exhausted and the call has returned.
C15_Witness ==
  /\ pc = "done"
  /\ stored = <<"params", "bias">>
  /\ line_buffer = <<>>
  /\ Len(inputs) = Len(inputs0) + 2

\* C16. Nothing is promoted on failure: when read_attributes has ended in an
\* error, raised in the read loop, in a reader or in the adjustment, inputs is
\* what it was before the call, constants is empty and dim is None, as on the
\* new component; only attributes holds what was read before the error.
C16_NoPromotionOnFailure ==
  pc = "error" =>
    /\ inputs = inputs0
    /\ consts = EmptyDict
    /\ dim = <<>>
    /\ \A k \in DOMAIN attrs : k \in Range(stored)

\* The adjustment of a batch-norm raised after a <Dim> and two statistics had
\* been read: the three values are attributes still.
C16_Witness ==
  /\ pc = "error"
  /\ err = "KeyError"
  /\ DOMAIN attrs = {"dim", "epsilon", "target_rms"}
  /\ attrs["dim"] = 3

\* The loop has stored a value for each of the four batch-norm statistics.
AllStatsRead == BatchNormKeys \subseteq Range(stored)

BatchNormState ==
  /\ (ctype = "BatchNormComponent" /\ pc \in {"lift_dim", "promote", "done"}) => AllStatsRead
  /\ (pc = "done" /\ stored = <<>>) =>
       /\ ctype # "BatchNormComponent"
       /\ attrs = EmptyDict /\ consts = EmptyDict /\ inputs = inputs0 /\ dim = <<>>

BatchNormStep ==
  /\ (pc = "adjust" /\ ctype = "BatchNormComponent" /\ ~AllStatsRead) =>
       pc' = "error" /\ err' = "KeyError" /\ UNCHANGED <<attrs, inputs, consts, dim>>
  /\ (pc = "adjust" /\ ctype # "BatchNormComponent") =>
       pc' = "lift_dim" /\ attrs' = attrs
  /\ (pc \in {"lift_dim", "promote"} /\ ctype # "BatchNormComponent") =>
       pc' \in {"promote", "done"}

\* C17. Batch-norm needs all four statistics: when the loop of a
\* BatchNormComponent has stopped at a terminating token without having read
\* each of <Epsilon>, <TargetRms>, <StatsMean> and <StatsVar>, the adjustment
\* raises (KeyError) and the call returns no component; a component of any
\* other class comes through the adjustment, and returns unchanged when its
\* declaration held none of the tags of its table.
C17_BatchNormNeedsStats == [](BatchNormState) /\ [][BatchNormStep]_vars

\* A batch-norm declaration with three of the four statistics, <TargetRms>
\* missing, has reached its terminating token and the adjustment has raised.
C17_Witness ==
  /\ ctype = "BatchNormComponent"
  /\ pc = "error"
  /\ err = "KeyError"
  /\ tok \in terminating_tokens
  /\ BatchNormKeys \cap Range(stored) = {"epsilon", "stats_mean", "stats_var"}

=============================================================================
